---- MODULE Spec2Model ----
(***************************************************************************)
(* A model of siren: flags.py (argument parsing), waveform.py (the WAV     *)
(* reader Waveform.__init__ / find_data_block_size and the writer          *)
(* Waveform.split / isolate) and siren.py (main).                          *)
(*                                                                         *)
(* Bytes are the integers 0..255 and a bytes object is a sequence of them. *)
(* A str is a sequence of one-character strings, so that concatenation and *)
(* endswith are computed.  Python integers are unbounded while TLC's are   *)
(* 32-bit, so every value read with '<I' and the file cursor are kept as   *)
(* two 16-bit limbs [hi, lo] standing for hi * 65536 + lo.                 *)
(***************************************************************************)
EXTENDS Integers, Sequences, FiniteSets, TLC

\* ------------------------------------------------------------------ bounds
\* Frames in the data payload of a generated input file: 0..MaxFrames.
MaxFrames == 2
\* Payload bytes of a generated unknown chunk: 0..MaxSkip.
MaxSkip == 2
\* Bytes cut from the end of a generated input file: 0..MaxCut.
MaxCut == 12
\* Sample values tried on the codec: this far on each side of the ends of a
\* format's range.
CodecSpan == 3

\* ------------------------------------------------------------- arithmetic
Min(a, b) == IF a < b THEN a ELSE b

Big(h, l) == [hi |-> h, lo |-> l]

\* Python's int addition on the limb representation.
BigAdd(a, b) ==
    LET l == a.lo + b.lo
    IN  Big(a.hi + b.hi + (l \div 65536), l % 65536)

\* Python's // of a limb value by a positive int d (d < 32768 in every run).
BigFloorDiv(a, d) ==
    LET r == a.hi % d
    IN  Big(a.hi \div d, (r * 65536 + a.lo) \div d)

\* ------------------------------------------------------------------ struct
\* struct.unpack('<I', b)[0] for len(b) = 4.
unpack_I(b) == Big(b[3] + 256 * b[4], b[1] + 256 * b[2])

\* struct.unpack('<H', b)[0] for len(b) = 2.
unpack_H(b) == b[1] + 256 * b[2]

\* struct.pack('<I', v).
pack_I(v) == << v.lo % 256, v.lo \div 256, v.hi % 256, v.hi \div 256 >>

\* struct.pack('<H', v).
pack_H(v) == << v % 256, v \div 256 >>

\* The sample formats chosen by Waveform.__init__.
FormatOf(bits) ==
    IF bits = 8 THEN "<B" ELSE IF bits = 16 THEN "<h" ELSE "<i"

SizeOf(fmt) == IF fmt = "<B" THEN 1 ELSE IF fmt = "<h" THEN 2 ELSE 4

\* struct.unpack(fmt, b)[0] for len(b) = SizeOf(fmt): unsigned byte, signed
\* little-endian 16 and 32 bit.
unpack_sample(fmt, b) ==
    IF fmt = "<B" THEN b[1]
    ELSE IF fmt = "<h"
         THEN LET u == b[1] + 256 * b[2]
              IN  IF u >= 32768 THEN u - 65536 ELSE u
         ELSE LET top == IF b[4] >= 128 THEN b[4] - 256 ELSE b[4]
              IN  top * 16777216 + b[3] * 65536 + b[2] * 256 + b[1]

\* The range struct.pack(fmt, v) accepts.
InRange(fmt, v) ==
    IF fmt = "<B" THEN v >= 0 /\ v <= 255
    ELSE IF fmt = "<h" THEN v >= -32768 /\ v <= 32767
         ELSE v >= -2147483647 - 1 /\ v <= 2147483647

\* The little-endian bytes of v reduced modulo 2^(8 * n), n <= 2, or of an
\* in-range 32-bit v.
LeBytes(fmt, v) ==
    IF fmt = "<B" THEN << v % 256 >>
    ELSE IF fmt = "<h"
         THEN LET u == v % 65536 IN << u % 256, u \div 256 >>
         ELSE LET lo == v % 65536
                  hi == (v \div 65536) % 65536
              IN  << lo % 256, lo \div 256, hi % 256, hi \div 256 >>

\* A pack that wraps out-of-range values instead of raising.
pack_sample_wrapping(fmt, v) == [ok |-> TRUE, bytes |-> LeBytes(fmt, v)]

\* struct.pack(fmt, v): raises struct.error (ok = FALSE) when v is out of
\* range for the format.
pack_sample(fmt, v) ==
    IF InRange(fmt, v)
    THEN [ok |-> TRUE, bytes |-> LeBytes(fmt, v)]
    ELSE [ok |-> FALSE, bytes |-> << >>]

\* -------------------------------------------------------------------- file
\* file.read(n) at cursor pos: the bytes that are there, at most n.
Read(f, pos, n) ==
    IF pos.hi > 0 \/ pos.lo >= Len(f) THEN << >>
    ELSE SubSeq(f, pos.lo + 1, Min(pos.lo + n, Len(f)))

\* file.read(size) for a size read with '<I'.
ReadBig(f, pos, size) ==
    IF pos.hi > 0 \/ pos.lo >= Len(f) THEN << >>
    ELSE IF size.hi > 0 THEN SubSeq(f, pos.lo + 1, Len(f))
         ELSE SubSeq(f, pos.lo + 1, Min(pos.lo + size.lo, Len(f)))

\* The cursor after reading the bytes got.
After(pos, got) == BigAdd(pos, Big(0, Len(got)))

TagRIFF == << 82, 73, 70, 70 >>
TagWAVE == << 87, 65, 86, 69 >>
TagFmt  == << 102, 109, 116, 32 >>
TagData == << 100, 97, 116, 97 >>
TagLIST == << 76, 73, 83, 84 >>

FILESIZE_MAX == Big(65535, 65535)

\* ------------------------------------------------------------ error kinds
NoError          == "none"
StructError      == "struct.error"
ZeroDivision     == "ZeroDivisionError"
UnsupportedBits  == "ValueError: Error: Only 8, 16, and 32 bit wav files are supported"
EndOfFile        == "ValueError: End of file. Data block not found"
ErrorReadingFile == "ValueError: Error reading file."
FlagsTypeError   == "TypeError"
FlagsIndexError  == "IndexError"
WriteError       == "OSError"

Unset == "unset"

\* ---------------------------------------------------------------- Waveform
NoWaveform ==
    [riff_id |-> Unset, file_size |-> Unset, wave_id |-> Unset,
     fmt_id |-> Unset, fmt_size |-> Unset, audio_format |-> Unset,
     audio_channels |-> Unset, sample_rate |-> Unset, byte_rate |-> Unset,
     block_align |-> Unset, bits_per_sample |-> Unset,
     bytes_per_sample |-> Unset, sample_format |-> Unset,
     data_id |-> Unset, data_size |-> Unset, num_samples |-> Unset,
     amplitudes |-> Unset]

\* The bit depths Waveform.__init__ accepts.
BitsSupported(bits) == bits \in {8, 16, 32}

\* Waveform.__init__, the RIFF and fmt blocks: twelve reads at fixed offsets
\* from the start of the file.  An unpack of a short read raises
\* struct.error; the three ids are read and never compared.
read_header(f) ==
    LET at(o, n) == Read(f, Big(0, o), n)
        short == \/ Len(at(4, 4)) < 4   \/ Len(at(16, 4)) < 4
                 \/ Len(at(20, 2)) < 2  \/ Len(at(22, 2)) < 2
                 \/ Len(at(24, 4)) < 4  \/ Len(at(28, 4)) < 4
                 \/ Len(at(32, 2)) < 2  \/ Len(at(34, 2)) < 2
        bits == unpack_H(at(34, 2))
    IN  IF short
        THEN [err |-> StructError, w |-> NoWaveform, pos |-> Big(0, 0)]
        ELSE IF ~BitsSupported(bits)
        THEN [err |-> UnsupportedBits, w |-> NoWaveform, pos |-> Big(0, 0)]
        ELSE [err |-> NoError,
              pos |-> Big(0, 36),
              w   |-> [NoWaveform EXCEPT
                         !.riff_id = at(0, 4),
                         !.file_size = unpack_I(at(4, 4)),
                         !.wave_id = at(8, 4),
                         !.fmt_id = at(12, 4),
                         !.fmt_size = unpack_I(at(16, 4)),
                         !.audio_format = unpack_H(at(20, 2)),
                         !.audio_channels = unpack_H(at(22, 2)),
                         !.sample_rate = unpack_I(at(24, 4)),
                         !.byte_rate = unpack_I(at(28, 4)),
                         !.block_align = unpack_H(at(32, 2)),
                         !.bits_per_sample = bits,
                         !.bytes_per_sample = bits \div 8,
                         !.sample_format = FormatOf(bits)]]

\* A scan that returns the size of the data chunk whatever it is (the
\* comparison with FILESIZE_MAX left out).
scan_step_no_max(f, pos) ==
    LET block_id == Read(f, pos, 4)
        p1       == After(pos, block_id)
        raw      == Read(f, p1, 4)
        p2       == After(p1, raw)
    IN  IF block_id = << >> THEN [kind |-> "raise", err |-> EndOfFile, pos |-> p1, size |-> Unset]
        ELSE IF Len(raw) < 4 THEN [kind |-> "raise", err |-> StructError, pos |-> p2, size |-> Unset]
        ELSE IF block_id = TagData
        THEN [kind |-> "return", err |-> NoError, pos |-> p2, size |-> unpack_I(raw)]
        ELSE [kind |-> "skip", err |-> NoError, pos |-> BigAdd(p2, unpack_I(raw)), size |-> Unset]

\* One pass of the loop of find_data_block_size from cursor pos: raise,
\* return the data size, or seek past the chunk and go round again.
scan_step(f, pos) ==
    LET block_id == Read(f, pos, 4)
        p1       == After(pos, block_id)
        raw      == Read(f, p1, 4)
        p2       == After(p1, raw)
    IN  IF block_id = << >>
        THEN [kind |-> "raise", err |-> EndOfFile, pos |-> p1, size |-> Unset]
        ELSE IF Len(raw) < 4
        THEN [kind |-> "raise", err |-> StructError, pos |-> p2, size |-> Unset]
        ELSE IF block_id = TagData
        THEN IF unpack_I(raw) = FILESIZE_MAX
             THEN [kind |-> "raise", err |-> ErrorReadingFile, pos |-> p2, size |-> Unset]
             ELSE [kind |-> "return", err |-> NoError, pos |-> p2, size |-> unpack_I(raw)]
        ELSE [kind |-> "skip", err |-> NoError,
              pos |-> BigAdd(p2, unpack_I(raw)), size |-> Unset]

\* find_data_block_size: the loop run to its end.
RECURSIVE find_data_block_size(_, _)
find_data_block_size(f, pos) ==
    LET s == scan_step(f, pos)
    IN  IF s.kind = "skip" THEN find_data_block_size(f, s.pos) ELSE s

\* num_samples = data_size // (bytes_per_sample * audio_channels).
frame_count(data_size, d) == BigFloorDiv(data_size, d)

\* self.data_size = self.find_data_block_size(file), with self.data_id set
\* on the way (lines 63, 112).
with_data_size(w0, size) == [w0 EXCEPT !.data_id = TagData, !.data_size = size]

\* Waveform.__init__, the data block after find_data_block_size returned
\* with the cursor at pos: num_samples, the read of the payload and the
\* unpacking loop, which raises struct.error on the first short slice.
read_samples(f, pos, w0) ==
    LET ch  == w0.audio_channels
        bps == w0.bytes_per_sample
        d   == bps * ch
    IN  IF d = 0 THEN [err |-> ZeroDivision, w |-> NoWaveform]
        ELSE
        LET n   == frame_count(w0.data_size, d)
            raw == ReadBig(f, pos, w0.data_size)
            sample(s, c) ==
                LET start == ((s - 1) * ch + (c - 1)) * bps
                IN  unpack_sample(w0.sample_format, SubSeq(raw, start + 1, start + bps))
        IN  IF n.hi > 0 \/ n.lo * d > Len(raw)
            THEN [err |-> StructError, w |-> NoWaveform]
            ELSE [err |-> NoError,
                  w   |-> [w0 EXCEPT
                             !.num_samples = n.lo,
                             !.amplitudes =
                                 [s \in 1..n.lo |-> [c \in 1..ch |-> sample(s, c)]]]]

\* Waveform(path) for a file holding the bytes f: the constructed object, or
\* the exception raised.
Waveform(f) ==
    LET h == read_header(f)
    IN  IF h.err # NoError THEN [err |-> h.err, w |-> NoWaveform]
        ELSE LET s == find_data_block_size(f, h.pos)
             IN  IF s.kind = "raise" THEN [err |-> s.err, w |-> NoWaveform]
                 ELSE read_samples(f, s.pos, with_data_size(h.w, s.size))

\* Waveform.isolate: the amplitudes, whatever the source.
isolate(w0, source) == w0.amplitudes

\* ------------------------------------------------------------------- Flags
S_input  == << "-", "i", "n", "p", "u", "t" >>
S_output == << "-", "o", "u", "t", "p", "u", "t" >>
S_source == << "-", "s", "o", "u", "r", "c", "e" >>
S_help   == << "-", "h", "e", "l", "p" >>
S_wav    == << ".", "w", "a", "v" >>

Bass   == << "b", "a", "s", "s" >>
Guitar == << "g", "u", "i", "t", "a", "r" >>
Vocals == << "v", "o", "c", "a", "l", "s" >>
Drums  == << "d", "r", "u", "m", "s" >>
Synth  == << "s", "y", "n", "t", "h" >>
Brass  == << "b", "r", "a", "s", "s" >>

valid_instruments == { Bass, Guitar, Vocals, Drums, Synth, Brass }

\* str.endswith.
EndsWith(s, suffix) ==
    /\ Len(s) >= Len(suffix)
    /\ SubSeq(s, Len(s) - Len(suffix) + 1, Len(s)) = suffix

\* The directories that exist where the program runs.
ExistingDirs == { << "o", "u", "t" >> }

\* A path without its trailing separators.
RECURSIVE StripSlashes(_)
StripSlashes(p) ==
    IF Len(p) > 0 /\ p[Len(p)] = "/"
    THEN StripSlashes(SubSeq(p, 1, Len(p) - 1))
    ELSE p

\* os.path.isdir.
IsDir(p) == StripSlashes(p) \in ExistingDirs

\* None, as a value that is a sequence and no str: a str holds single characters.
None == << "None" >>

NoFlags == [input |-> None, output |-> None, source |-> << >>]

\* The loop of Flags.__init__ from argument i on (1-based), fl holding what
\* the arguments before it set.
RECURSIVE parse_args(_, _, _)
parse_args(args, i, fl) ==
    IF i > Len(args) THEN [err |-> NoError, fl |-> fl]
    ELSE IF args[i] = S_input
    THEN IF i + 1 > Len(args) THEN [err |-> FlagsIndexError, fl |-> fl]
         ELSE IF EndsWith(args[i + 1], S_wav)
         THEN parse_args(args, i + 1, [fl EXCEPT !.input = args[i + 1]])
         ELSE [err |-> FlagsTypeError, fl |-> fl]
    ELSE IF args[i] = S_output
    THEN IF i + 1 > Len(args) THEN [err |-> FlagsIndexError, fl |-> fl]
         ELSE IF IsDir(args[i + 1])
         THEN parse_args(args, i + 1, [fl EXCEPT !.output = args[i + 1]])
         ELSE [err |-> FlagsTypeError, fl |-> fl]
    ELSE IF args[i] = S_source
    THEN IF \A j \in (i + 1)..Len(args) : args[j] \in valid_instruments
         THEN parse_args(args, i + 1,
                  [fl EXCEPT !.source = fl.source \o SubSeq(args, i + 1, Len(args))])
         ELSE [err |-> FlagsTypeError, fl |-> fl]
    ELSE parse_args(args, i + 1, fl)

\* Flags(): "exit" for -help, the exception raised, or the three flags.
Flags(args) ==
    IF \E i \in 1..Len(args) : args[i] = S_help
    THEN [err |-> "exit", fl |-> NoFlags]
    ELSE LET r == parse_args(args, 1, NoFlags)
         IN  IF r.err # NoError THEN [err |-> r.err, fl |-> NoFlags]
             ELSE IF r.fl.input = None \/ r.fl.output = None \/ r.fl.source = << >>
             THEN [err |-> FlagsTypeError, fl |-> NoFlags]
             ELSE r

\* ------------------------------------------------------------------- split
\* f'{output_directory}{source}.wav'
output_path(output_directory, source) == output_directory \o source \o S_wav

\* The RIFF block split writes (lines 132-134).
riff_block(w0) == TagRIFF \o pack_I(w0.file_size) \o TagWAVE

\* The fmt block with the sample rate and the byte rate in each other's place.
fmt_block_rates_swapped(w0) ==
    TagFmt \o pack_I(w0.fmt_size) \o pack_H(w0.audio_format)
           \o pack_H(w0.audio_channels) \o pack_I(w0.byte_rate)
           \o pack_I(w0.sample_rate) \o pack_H(w0.block_align)
           \o pack_H(w0.bits_per_sample)

\* The fmt block split writes (lines 137-144).
fmt_block(w0) ==
    TagFmt \o pack_I(w0.fmt_size) \o pack_H(w0.audio_format)
           \o pack_H(w0.audio_channels) \o pack_I(w0.sample_rate)
           \o pack_I(w0.byte_rate) \o pack_H(w0.block_align)
           \o pack_H(w0.bits_per_sample)

\* The data header split writes (lines 147-148).
data_header(w0) == TagData \o pack_I(w0.data_size)

\* ------------------------------------------------------------- input files
\* The bytes of generated payloads, repeating: as 16-bit stereo frames they
\* begin [[1, -1], [2, -2]].
PatternByte(i) == << 1, 0, 255, 255, 2, 0, 254, 255 >>[((i - 1) % 8) + 1]

Payload(n) == [i \in 1..n |-> PatternByte(i)]

\* An unknown chunk: id 'LIST', a declared size, n payload bytes.
UnknownChunk(size, n) == TagLIST \o pack_I(size) \o [i \in 1..n |-> 7]

Layouts == { "plain", "fmt18", "pre", "mid", "tail", "mid_max", "data_max" }

\* The file a description g stands for.  layout says what departs from the
\* canonical 44-byte header: an fmt chunk of size 18, an unknown chunk before
\* fmt, between fmt and data or after data, an unknown chunk or a data chunk
\* declaring 0xFFFFFFFF.  extra is the number of payload bytes beyond the
\* whole frames, cut the number of bytes missing at the end.
BuildFile(g) ==
    LET bps     == g.bits \div 8
        n       == g.frames * g.ch * bps + g.extra
        pre     == IF g.layout = "pre" THEN UnknownChunk(Big(0, g.skip), g.skip) ELSE << >>
        fmtext  == IF g.layout = "fmt18" THEN << 0, 0 >> ELSE << >>
        mid     == IF g.layout = "mid" THEN UnknownChunk(Big(0, g.skip), g.skip)
                   ELSE IF g.layout = "mid_max" THEN UnknownChunk(FILESIZE_MAX, g.skip)
                   ELSE << >>
        tail    == IF g.layout = "tail" THEN UnknownChunk(Big(0, g.skip), g.skip) ELSE << >>
        dsize   == IF g.layout = "data_max" THEN FILESIZE_MAX ELSE Big(0, n)
        body    == TagWAVE \o pre
                   \o TagFmt \o pack_I(Big(0, 16 + Len(fmtext)))
                   \o pack_H(1) \o pack_H(g.ch) \o pack_I(Big(0, 8000))
                   \o pack_I(Big(0, 8000 * g.ch * bps)) \o pack_H(g.ch * bps)
                   \o pack_H(g.bits) \o fmtext
                   \o mid
                   \o TagData \o pack_I(dsize) \o Payload(n)
                   \o tail
        full    == TagRIFF \o pack_I(Big(0, Len(body))) \o body
    IN  SubSeq(full, 1, Len(full) - g.cut)

Gen(bits, ch, layout, skip, frames, extra, cut) ==
    [bits |-> bits, ch |-> ch, layout |-> layout, skip |-> skip,
     frames |-> frames, extra |-> extra, cut |-> cut]

\* Whole files in every layout and bit depth.
GenLayouts ==
    { Gen(b, c, l, k, fr, 0, 0) :
        b \in {8, 16, 24, 32}, c \in {1, 2}, l \in Layouts,
        k \in 0..MaxSkip, fr \in 0..MaxFrames }

\* Files whose data size is not a whole number of frames.
GenPartialFrame ==
    { Gen(b, c, "plain", 0, fr, 1, 0) :
        b \in {8, 16, 32}, c \in {1, 2}, fr \in 0..MaxFrames }

\* Truncated files.
GenTruncated ==
    { Gen(b, c, l, MaxSkip, fr, 0, cut) :
        b \in {8, 16, 32}, c \in {1, 2}, l \in {"plain", "mid"},
        fr \in 0..MaxFrames, cut \in 1..MaxCut }

\* Files declaring no channel.
GenNoChannel == { Gen(b, 0, "plain", 0, 0, e, 0) : b \in {8, 16}, e \in {0, 1} }

Gens ==
    { g \in GenLayouts : g.skip = 0 \/ g.layout \in {"pre", "mid", "tail", "mid_max"} }
      \cup GenPartialFrame \cup GenTruncated \cup GenNoChannel

\* ------------------------------------------------------------ command lines
InWav  == << "a", ".", "w", "a", "v" >>
OutDir == << "o", "u", "t" >>

ArgsGood ==
    { << S_input, InWav, S_output, OutDir \o << "/" >>, S_source, Drums, Bass >>,
      << S_input, InWav, S_output, OutDir, S_source, Drums >>,
      << S_output, OutDir \o << "/" >>, S_input, InWav, S_source, Synth, Synth >> }

ArgsBad ==
    { << S_help >>,
      << S_input, << "a", ".", "m", "p", "3" >>, S_output, OutDir, S_source, Drums >>,
      << S_input, InWav, S_output, << "n", "o" >>, S_source, Drums >>,
      << S_input, InWav, S_output, OutDir, S_source, << "o", "b", "o", "e" >> >>,
      << S_input, InWav, S_source, Drums, S_output, OutDir >>,
      << S_input, InWav, S_output, OutDir >>,
      << S_source, Drums, S_output, OutDir, S_input >> }

\* ------------------------------------------------------------------- state
VARIABLES
    args,       \* sys.argv[1:]
    disk,       \* the bytes of the input file
    gen,        \* the description disk was generated from
    pc,         \* where main is
    err,        \* the exception that ended main, or "none"
    flags,      \* Flags: input, output, source
    w,          \* the Waveform object
    pos,        \* the cursor of the input file
    k,          \* split: the index of the source being written
    isolated_amplitudes,
    n,          \* split: the samples written to the open file
    files,      \* the output files: a set of [path, bytes]
    codec       \* the sample codec applied to one value

vars == << args, disk, gen, pc, err, flags, w, pos, k, isolated_amplitudes, n,
           files, codec >>

SplitPcs == { "isolate", "open", "riff", "fmt", "datahdr", "write", "flush" }

CodecIdle == [pc |-> "idle", fmt |-> "<B", value |-> 0, packed |-> Unset, unpacked |-> Unset]

Init ==
    /\ \/ gen \in Gens /\ args \in ArgsGood
       \/ gen = Gen(16, 2, "plain", 0, MaxFrames, 0, 0) /\ args \in ArgsBad
    /\ disk = BuildFile(gen)
    /\ pc = "flags"
    /\ err = NoError
    /\ flags = NoFlags
    /\ w = NoWaveform
    /\ pos = Big(0, 0)
    /\ k = 0
    /\ isolated_amplitudes = Unset
    /\ n = 0
    /\ files = {}
    /\ codec = CodecIdle

\* An exception raised in main and caught, main going on to split.
raise_swallowed(e) == [pc |-> "isolate", err |-> e]

\* An exception raised in Waveform() leaves main (siren.py has no
\* handler): split is not called.
raise_in_main(e) == [pc |-> "failed", err |-> e]

\* argument_flags = Flags()
ParseFlags ==
    /\ pc = "flags"
    /\ LET r == Flags(args)
       IN  IF r.err = "exit"
           THEN pc' = "exit" /\ err' = err /\ flags' = flags
           ELSE IF r.err # NoError
           THEN pc' = "failed" /\ err' = r.err /\ flags' = flags
           ELSE pc' = "header" /\ err' = err /\ flags' = r.fl
    /\ UNCHANGED << args, disk, gen, w, pos, k, isolated_amplitudes, n, files, codec >>

\* Waveform.__init__: the RIFF block, the fmt block and the bit depth check.
ReadHeader ==
    /\ pc = "header"
    /\ LET r == read_header(disk)
       IN  IF r.err # NoError
           THEN pc' = raise_in_main(r.err).pc /\ err' = raise_in_main(r.err).err
                /\ w' = w /\ pos' = pos
           ELSE pc' = "scan" /\ err' = err /\ w' = r.w /\ pos' = r.pos
    /\ UNCHANGED << args, disk, gen, flags, k, isolated_amplitudes, n, files, codec >>

\* find_data_block_size: one pass of its loop.
ScanChunk ==
    /\ pc = "scan"
    /\ LET s == scan_step(disk, pos)
       IN  /\ pos' = s.pos
           /\ IF s.kind = "raise"
              THEN pc' = raise_in_main(s.err).pc /\ err' = raise_in_main(s.err).err
                   /\ w' = w
              ELSE IF s.kind = "return"
              THEN pc' = "samples" /\ err' = err /\ w' = with_data_size(w, s.size)
              ELSE pc' = "scan" /\ err' = err /\ w' = w
    /\ UNCHANGED << args, disk, gen, flags, k, isolated_amplitudes, n, files, codec >>

\* Waveform.__init__: num_samples and the amplitudes.
ReadSamples ==
    /\ pc = "samples"
    /\ LET r == read_samples(disk, pos, w)
       IN  IF r.err # NoError
           THEN pc' = raise_in_main(r.err).pc /\ err' = raise_in_main(r.err).err
                /\ w' = w /\ k' = k
           ELSE pc' = "isolate" /\ err' = err /\ w' = r.w /\ k' = 1
    /\ UNCHANGED << args, disk, gen, flags, pos, isolated_amplitudes, n, files, codec >>

\* The bytes of the file at path p.
Content(fs, p) == (CHOOSE r \in fs : r.path = p).bytes

Exists(fs, p) == \E r \in fs : r.path = p

\* open(path, 'wb'): the file is created, or emptied if it is there.
open_wb(fs, p) == { r \in fs : r.path # p } \cup { [path |-> p, bytes |-> << >>] }

\* file.write(b) on the open file at path p.
write(fs, p, b) ==
    { r \in fs : r.path # p } \cup { [path |-> p, bytes |-> Content(fs, p) \o b] }

\* The matrix in the order split writes it: frame by frame, channel by channel.
RECURSIVE Flatten(_)
Flatten(m) == IF m = << >> THEN << >> ELSE Head(m) \o Flatten(Tail(m))

\* The source after this one, taken out of order.
next_source_skipping(i, sources) == IF i + 2 <= Len(sources) THEN i + 2 ELSE 0

\* for source in sources: the index after i, 0 when the loop is over.
next_source(i, sources) == IF i + 1 <= Len(sources) THEN i + 1 ELSE 0

CurrentPath == output_path(flags.output, flags.source[k])

\* isolated_amplitudes = self.isolate(source)
Isolate ==
    /\ pc = "isolate"
    /\ isolated_amplitudes' = isolate(w, flags.source[k])
    /\ pc' = "open"
    /\ UNCHANGED << args, disk, gen, err, flags, w, pos, k, n, files, codec >>

\* with open(f'{output_directory}{source}.wav', 'wb') as file
OpenOutput ==
    /\ pc = "open"
    /\ files' = open_wb(files, CurrentPath)
    /\ pc' = "riff"
    /\ UNCHANGED << args, disk, gen, err, flags, w, pos, k, isolated_amplitudes, n, codec >>

\* The RIFF block.
WriteRiff ==
    /\ pc = "riff"
    /\ files' = write(files, CurrentPath, riff_block(w))
    /\ pc' = "fmt"
    /\ UNCHANGED << args, disk, gen, err, flags, w, pos, k, isolated_amplitudes, n, codec >>

\* The fmt block.
WriteFmt ==
    /\ pc = "fmt"
    /\ files' = write(files, CurrentPath, fmt_block(w))
    /\ pc' = "datahdr"
    /\ UNCHANGED << args, disk, gen, err, flags, w, pos, k, isolated_amplitudes, n, codec >>

\* b'data' and the data size; then the loop over the frames, if there are any.
WriteDataHeader ==
    /\ pc = "datahdr"
    /\ files' = write(files, CurrentPath, data_header(w))
    /\ n' = 0
    /\ pc' = IF Flatten(isolated_amplitudes) = << >> THEN "flush" ELSE "write"
    /\ UNCHANGED << args, disk, gen, err, flags, w, pos, k, isolated_amplitudes, codec >>

\* file.write(struct.pack(self.sample_format, int(sample))) for the next
\* sample; struct.error leaves the with block, which closes the file.
WriteSample ==
    /\ pc = "write"
    /\ LET flat == Flatten(isolated_amplitudes)
           p    == pack_sample(w.sample_format, flat[n + 1])
       IN  IF p.ok
           THEN /\ files' = write(files, CurrentPath, p.bytes)
                /\ n' = n + 1
                /\ pc' = IF n + 1 = Len(flat) THEN "flush" ELSE "write"
                /\ err' = err
           ELSE /\ files' = files /\ n' = n
                /\ pc' = "failed" /\ err' = StructError
    /\ UNCHANGED << args, disk, gen, flags, w, pos, k, isolated_amplitudes, codec >>

\* file.flush(), the report, the end of the with block; then the next source
\* or the end of split.
Flush ==
    /\ pc = "flush"
    /\ k' = next_source(k, flags.source)
    /\ pc' = IF next_source(k, flags.source) = 0 THEN "plot" ELSE "isolate"
    /\ UNCHANGED << args, disk, gen, err, flags, w, pos, isolated_amplitudes, n, files, codec >>

\* A write or the flush raises OSError (the disk is full, the device is
\* gone): the with block closes the file with what was written, and the
\* exception leaves split and main.
WriteFails ==
    /\ pc \in { "riff", "fmt", "datahdr", "write", "flush" }
    /\ pc' = "failed"
    /\ err' = WriteError
    /\ UNCHANGED << args, disk, gen, flags, w, pos, k, isolated_amplitudes, n, files, codec >>

\* The plot of main (lines 15-24), which changes nothing here.
Plot ==
    /\ pc = "plot"
    /\ pc' = "done"
    /\ UNCHANGED << args, disk, gen, err, flags, w, pos, k, isolated_amplitudes, n, files, codec >>

Next ==
    \/ ParseFlags \/ ReadHeader \/ ScanChunk \/ ReadSamples
    \/ Isolate \/ OpenOutput \/ WriteRiff \/ WriteFmt \/ WriteDataHeader
    \/ WriteSample \/ Flush \/ WriteFails \/ Plot

Spec == Init /\ [][Next]_vars

\* ------------------------------------------------------------ sample codec
\* The values tried on a format: around both ends of its range and around 0,
\* outside the range where TLC's integers reach.
CodecValues(fmt) ==
    IF fmt = "<B" THEN (0 - CodecSpan)..(255 + CodecSpan)
    ELSE IF fmt = "<h"
    THEN ((-32768 - CodecSpan)..(-32768 + CodecSpan))
         \cup ((0 - CodecSpan)..CodecSpan)
         \cup ((32767 - CodecSpan)..(32767 + CodecSpan))
    ELSE { (-2147483647 - 1) + i : i \in 0..CodecSpan }
         \cup ((0 - CodecSpan)..CodecSpan)
         \cup { 2147483647 - i : i \in 0..CodecSpan }

InitCodec ==
    /\ args = << >>
    /\ gen = Gen(16, 2, "plain", 0, 0, 0, 0)
    /\ disk = BuildFile(gen)
    /\ pc = "idle"
    /\ err = NoError
    /\ flags = NoFlags
    /\ w = NoWaveform
    /\ pos = Big(0, 0)
    /\ k = 0
    /\ isolated_amplitudes = Unset
    /\ n = 0
    /\ files = {}
    /\ \E fmt \in {"<B", "<h", "<i"} : \E v \in CodecValues(fmt) :
           codec = [CodecIdle EXCEPT !.pc = "start", !.fmt = fmt, !.value = v]

\* struct.pack(self.sample_format, int(sample)), as split calls it.
Encode ==
    /\ codec.pc = "start"
    /\ LET p == pack_sample(codec.fmt, codec.value)
       IN  codec' = [codec EXCEPT !.packed = p,
                                  !.pc = IF p.ok THEN "packed" ELSE "raised"]
    /\ UNCHANGED << args, disk, gen, pc, err, flags, w, pos, k,
                    isolated_amplitudes, n, files >>

\* struct.unpack(self.sample_format, ...)[0], as __init__ calls it.
Decode ==
    /\ codec.pc = "packed"
    /\ codec' = [codec EXCEPT !.unpacked = unpack_sample(codec.fmt, codec.packed.bytes),
                              !.pc = "unpacked"]
    /\ UNCHANGED << args, disk, gen, pc, err, flags, w, pos, k,
                    isolated_amplitudes, n, files >>

NextCodec == Encode \/ Decode

SpecCodec == InitCodec /\ [][NextCodec]_vars

\* ================================================================== claims
\* Flags() returned its three flags.
FlagsParsed == Flags(args).err = NoError

\* Waveform(input) returned: main is in split or past it.
Constructed == pc \in SplitPcs \cup { "plot", "done" }

\* split returned.
SplitReturned == pc \in { "plot", "done" }

\* The description stands for a well-formed PCM file: a supported bit depth,
\* at least one channel, whole frames, nothing cut, no 0xFFFFFFFF size.
WellFormed(g) ==
    /\ g.bits \in {8, 16, 32}
    /\ g.ch >= 1
    /\ g.extra = 0
    /\ g.cut = 0
    /\ g.layout \in { "plain", "fmt18", "pre", "mid", "tail" }

\* The canonical layout: an fmt chunk of size 16 right after WAVE, the data
\* chunk right after it, nothing after the payload.
Canonical(g) == WellFormed(g) /\ g.layout = "plain"

\* The paths of the files there are.
Paths == { r.path : r \in files }

\* The six format fields, data_size and the sample matrix of two constructed
\* objects agree.
SameDecoded(a, b) ==
    /\ a.audio_format = b.audio_format
    /\ a.audio_channels = b.audio_channels
    /\ a.sample_rate = b.sample_rate
    /\ a.byte_rate = b.byte_rate
    /\ a.block_align = b.block_align
    /\ a.bits_per_sample = b.bits_per_sample
    /\ a.data_size = b.data_size
    /\ a.amplitudes = b.amplitudes

\* The bytes hold a whole container for the object: the 44 header bytes and
\* every frame.
FullContainer(b, w0) ==
    Len(b) = 44 + w0.num_samples * w0.audio_channels * w0.bytes_per_sample

\* ---- C1
\* C1 as stated: for every well-formed input, those with an fmt chunk of size
\* 18 or with chunks besides fmt and data included, the file split writes from
\* the constructed object holds the input's bytes.
C1_Original ==
    WellFormed(gen) /\ SplitReturned => \A r \in files : r.bytes = disk

\* C1 amended: the round trip is byte-exact for the well-formed files in the
\* canonical layout (fmt chunk of size 16, no chunk besides fmt and data).
C1_RoundTrip ==
    Canonical(gen) /\ FlagsParsed =>
        /\ pc = "failed" => err = WriteError
        /\ SplitReturned => files # {} /\ \A r \in files : r.bytes = disk
        /\ pc = "isolate" /\ k > 1 =>
               Content(files, output_path(flags.output, flags.source[k - 1])) = disk

C1_Witness ==
    /\ pc = "done" /\ Canonical(gen) /\ gen.frames >= 2 /\ gen.bits = 32
    /\ \E r \in files : r.bytes = disk /\ Len(disk) > 44

\* ---- C2
\* C2: a well-formed file with an unknown chunk inserted before fmt or between
\* fmt and data constructs, with the format fields, data_size and matrix of
\* the file without the chunk.
C2_ToleratesUnknownChunks ==
    WellFormed(gen) /\ gen.layout \in { "pre", "mid" } /\ FlagsParsed =>
        /\ pc = "failed" => err = WriteError
        /\ Constructed =>
               SameDecoded(w, Waveform(BuildFile([gen EXCEPT !.layout = "plain"])).w)

\* ---- C3
\* C3: after construction num_samples * bytes_per_sample * audio_channels is
\* data_size, and the matrix is num_samples rows of audio_channels samples;
\* a data size that is no whole number of frames is never constructed from.
C3_ExactFrameCount ==
    Constructed =>
        /\ w.data_size = Big(0, w.num_samples * w.bytes_per_sample * w.audio_channels)
        /\ Len(w.amplitudes) = w.num_samples
        /\ \A i \in 1..Len(w.amplitudes) : Len(w.amplitudes[i]) = w.audio_channels

\* ---- C4
\* C4: when Waveform(input) raises, main never enters split and no output
\* file exists; a header declaring a bit depth outside {8, 16, 32}, 24 among
\* them, ends main with the unsupported-bit-depth error.
C4_DecodeFailureBeforeOutput ==
    /\ Waveform(disk).err # NoError => ~Constructed /\ files = {}
    /\ FlagsParsed /\ Len(disk) >= 36
          /\ unpack_H(SubSeq(disk, 35, 36)) \notin {8, 16, 32} =>
          /\ pc \in { "flags", "header", "failed" }
          /\ pc = "failed" => err = UnsupportedBits

C4_Witness ==
    /\ pc = "failed" /\ err = UnsupportedBits /\ gen.bits = 24
    /\ gen.frames > 0 /\ files = {}

\* ---- C5
\* C5: when find_data_block_size raises because the stream ended (not for a
\* 0xFFFFFFFF data size), the error is 'End of file. Data block not found'.
C5_TruncatedIsEndOfFile ==
    LET h == read_header(disk)
    IN  /\ pc = "failed" /\ FlagsParsed /\ h.err = NoError
        /\ find_data_block_size(disk, h.pos).kind = "raise"
        /\ find_data_block_size(disk, h.pos).err # ErrorReadingFile
        => err = EndOfFile

\* ---- C6
\* The files split has opened so far are those of the sources up to the
\* current one, in the order given.
WrittenInOrder ==
    LET upto == IF pc \in { "isolate", "open" } THEN k - 1 ELSE k
    IN  pc \in SplitPcs =>
            Paths = { output_path(flags.output, flags.source[i]) : i \in 1..upto }

\* C6: split takes the sources in the order given, one at a time; when it
\* returns there is one whole file per source, all with the same bytes, each
\* decoding to the object's file_size, fmt_size, format fields, data_size and
\* sample matrix.
C6_OneFilePerLabelInOrder ==
    /\ WrittenInOrder
    /\ SplitReturned =>
          /\ Paths = { output_path(flags.output, flags.source[i]) :
                         i \in 1..Len(flags.source) }
          /\ \A r \in files :
                /\ FullContainer(r.bytes, w)
                /\ Waveform(r.bytes).err = NoError
                /\ SameDecoded(Waveform(r.bytes).w, w)
                /\ Waveform(r.bytes).w.file_size = w.file_size
                /\ Waveform(r.bytes).w.fmt_size = w.fmt_size
          /\ \A r1, r2 \in files : r1.bytes = r2.bytes

C6_Witness ==
    /\ pc = "done"
    /\ flags.source = << Drums, Bass >>
    /\ Cardinality(files) = 2
    /\ w.bits_per_sample = 16
    /\ w.amplitudes = << << 1, -1 >>, << 2, -2 >> >>
    /\ \A r \in files : Waveform(r.bytes).w.amplitudes = << << 1, -1 >>, << 2, -2 >> >>

\* ---- C7
\* A path with its runs of separators collapsed, as the file system reads it.
RECURSIVE Collapse(_)
Collapse(p) ==
    IF Len(p) < 2 THEN p
    ELSE IF p[1] = "/" /\ p[2] = "/" THEN Collapse(Tail(p))
    ELSE << p[1] >> \o Collapse(Tail(p))

\* D + '/' + L + '.wav'
output_path_joined(output_directory, source) ==
    output_directory \o << "/" >> \o source \o S_wav

\* C7: every file split writes is at D/L.wav for the output directory D and
\* one of the sources L.
C7_WritesInsideOutputDirectory ==
    \A r \in files : \E i \in 1..Len(flags.source) :
        Collapse(r.path) = Collapse(output_path_joined(flags.output, flags.source[i]))

\* ---- C8
\* The values a format represents.
Representable(fmt, v) ==
    IF fmt = "<B" THEN v \in 0..255
    ELSE IF fmt = "<h" THEN v >= -32768 /\ v <= 32767
    ELSE v >= -2147483647 - 1 /\ v <= 2147483647

\* The bytes of v reduced modulo 2^bits, low byte first.
Wrapped(fmt, v) ==
    IF fmt = "<B" THEN << v % 256 >>
    ELSE IF fmt = "<h" THEN << v % 256, (v \div 256) % 256 >>
    ELSE << v % 256, (v \div 256) % 256, (v \div 65536) % 256, (v \div 16777216) % 256 >>

DeclaresMaxAt(f, p) ==
    /\ Len(Read(f, p, 8)) = 8
    /\ unpack_I(SubSeq(Read(f, p, 8), 5, 8)) = FILESIZE_MAX

IdAt(f, p) == Read(f, p, 4)

\* C9 as stated: a pass of the scan that reads a declared size of 0xFFFFFFFF,
\* on the data chunk or on any other, raises 'Error reading file.'.
C9_Original ==
    [][ pc = "scan" /\ DeclaresMaxAt(disk, pos)
          => pc' = "failed" /\ err' = ErrorReadingFile ]_vars

\* C9 amended: the scan raises 'Error reading file.' when the data chunk
\* declares 0xFFFFFFFF, and returns no size; another chunk declaring it is
\* skipped by that size like any chunk, which takes the cursor past the end of
\* the file, and the scan then ends with the end-of-file error.
C9_MaxSizeOnDataChunkOnly ==
    /\ [][ pc = "scan" /\ DeclaresMaxAt(disk, pos) =>
             IF IdAt(disk, pos) = TagData
             THEN pc' = "failed" /\ err' = ErrorReadingFile /\ w' = w
             ELSE /\ pc' = "scan"
                  /\ pos' = BigAdd(BigAdd(pos, Big(0, 8)), FILESIZE_MAX) ]_vars
    /\ [][ pc = "scan" /\ pos.hi > 0 => pc' = "failed" /\ err' = EndOfFile ]_vars

C9_Witness ==
    /\ pc = "failed" /\ err = ErrorReadingFile /\ gen.layout = "data_max"
    /\ gen.frames > 0

\* ---- C10
\* main ended on an exception raised inside split.
FailedInSplit == pc = "failed" /\ k >= 1 /\ err \in { WriteError, StructError }

\* C10: when a write for the k-th source fails, no later source has a file,
\* the files of the sources written before are whole, and every output file
\* that exists is a whole container.
C10_FailureLeavesNoPartialFile ==
    FailedInSplit =>
        /\ Paths \subseteq { output_path(flags.output, flags.source[i]) : i \in 1..k }
        /\ \A i \in 1..(k - 1) :
              /\ Exists(files, output_path(flags.output, flags.source[i]))
              /\ FullContainer(Content(files, output_path(flags.output, flags.source[i])), w)
        /\ \A r \in files : FullContainer(r.bytes, w)

====
